---- MODULE Spec2Model ----
(***************************************************************************)
(* The File and Note resource managers of the application                  *)
(* (src/routes/files.py, src/routes/notes.py, src/models/file.py).         *)
(*                                                                         *)
(* State: the `files` table, the upload directory (`blobs`), the `notes`   *)
(* table, what is left pending in db.session when a handler returns        *)
(* (`dbsession`) and the response of the last request (`last`).            *)
(*                                                                         *)
(* Every handler is a function of the stored state and of the request; it  *)
(* is written once as an operator that returns the new tables together     *)
(* with the response, and the action of the handler applies that operator  *)
(* to inputs drawn from small sets.                                        *)
(*                                                                         *)
(* Text is a tuple of one-character strings, so that secure_filename,      *)
(* bleach.clean and SQL LIKE are computed character by character.          *)
(* An optional value (None in Python) is <<>>, a present one <<v>>.        *)
(***************************************************************************)
EXTENDS Integers, Sequences, FiniteSets, TLC

VARIABLES files, blobs, notes, dbsession, last

vars == <<files, blobs, notes, dbsession, last>>

\* ------------------------------------------------------------------ bounds
\* Largest primary key the files table hands out, when uploads use any of
\* the file names (SpecFiles) and when every upload sanitizes to the same
\* name (SpecShared).
MaxFileId == 1
MaxSharedId == 2
\* Largest primary key the notes table hands out.
MaxNoteId == 2

\* ------------------------------------------------------------- option type
None == <<>>
Some(v) == <<v>>

\* ------------------------------------------------------------------- users
\* models/user.py is not part of the sources at hand: users 1 and 2 are
\* ordinary users, user 3 is an admin.
Users == {1, 2, 3}
Admins == {3}
is_admin(u) == u \in Admins

\* What the session cookie carries: no "user" key, a username that no User
\* row has, or the username of a user.
NoSession == 0
StaleSession == 99
Sessions == Users \cup {NoSession, StaleSession}

\* -------------------------------------------------------------------- text
UpperCase == <<"A","B","C","D","E","F","G","H","I","J","K","L","M",
               "N","O","P","Q","R","S","T","U","V","W","X","Y","Z">>
LowerCase == <<"a","b","c","d","e","f","g","h","i","j","k","l","m",
               "n","o","p","q","r","s","t","u","v","w","x","y","z">>
Digits == {"0","1","2","3","4","5","6","7","8","9"}
Range(s) == {s[i] : i \in DOMAIN s}
UpperChars == Range(UpperCase)
LowerChars == Range(LowerCase)

\* str.lower(), one character and a whole text.
LowerChar(c) ==
    IF c \in UpperChars
    THEN LowerCase[CHOOSE i \in DOMAIN UpperCase : UpperCase[i] = c]
    ELSE c
Lower(s) == [i \in DOMAIN s |-> LowerChar(s[i])]

\* str.lstrip(chars), str.rstrip(chars), str.strip(chars).
RECURSIVE LStrip(_, _)
LStrip(s, chars) ==
    IF s # <<>> /\ Head(s) \in chars THEN LStrip(Tail(s), chars) ELSE s
RECURSIVE RStrip(_, _)
RStrip(s, chars) ==
    IF s # <<>> /\ s[Len(s)] \in chars
    THEN RStrip(SubSeq(s, 1, Len(s) - 1), chars)
    ELSE s
Strip(s, chars) == RStrip(LStrip(s, chars), chars)

\* "_".join(s.split()): runs of white space become one "_", white space at
\* either end disappears.
RECURSIVE JoinRuns(_)
JoinRuns(s) ==
    IF s = <<>> THEN <<>>
    ELSE IF Head(s) = " " THEN <<"_">> \o JoinRuns(LStrip(s, {" "}))
    ELSE <<Head(s)>> \o JoinRuns(Tail(s))
JoinWords(s) == JoinRuns(Strip(s, {" "}))

\* werkzeug.utils.secure_filename on a POSIX host: path separators become
\* white space, words are joined by "_", every character outside
\* [A-Za-z0-9_.-] is dropped, leading and trailing "." and "_" are stripped.
FilenameChars == UpperChars \cup LowerChars \cup Digits \cup {"_", ".", "-"}
secure_filename(name) ==
    LET spaced == [i \in DOMAIN name |-> IF name[i] = "/" THEN " " ELSE name[i]]
        joined == JoinWords(spaced)
        ascii  == SelectSeq(joined, LAMBDA c : c \in FilenameChars)
    IN  Strip(ascii, {".", "_"})

\* ------------------------------------------------------------ file manager
ALLOWED_MIMETYPES == {"application/pdf", "image/png", "image/jpeg", "image/gif"}
UPLOAD_FOLDER == "uploads"
MAX_FILE_SIZE == 5 * 1024 * 1024

\* (mutant) every content type passes
allowed_mimetype_any(mimetype) == TRUE
allowed_mimetype(mimetype) == mimetype \in ALLOWED_MIMETYPES

\* os.path.join(UPLOAD_FOLDER, filename)
path_join(folder, filename) == <<folder, filename>>

\* werkzeug's generate_password_hash / check_password_hash: the stored value
\* carries the salt and the digest of salt and password; checking recomputes
\* the digest of the candidate with the stored salt.
Digest(salt, password) == <<salt, password>>
generate_password_hash(password, salt) ==
    [salt |-> salt, digest |-> Digest(salt, password)]
\* (mutant) only the salt is compared
check_password_hash_salt(pwhash, password) ==
    pwhash.digest[1] = Digest(pwhash.salt, password)[1]
check_password_hash(pwhash, password) ==
    pwhash.digest = Digest(pwhash.salt, password)

\* File.check_password
check_password(file, password) == check_password_hash(file.password[1], password)

\* A response: which handler, for whom and for which id, the HTTP status, the
\* kind of body (json, the password form, the blob bytes), its text and, for
\* a search, the notes it lists.
Response(op, sess, id, status, kind, data) ==
    [op |-> op, user |-> sess, id |-> id, status |-> status,
     kind |-> kind, data |-> data, notes |-> {}]

\* What a handler leaves behind: the tables, the pending changes of db.session
\* and the response.
Outcome(tbl, fs, pending, response) ==
    [files |-> tbl, blobs |-> fs, dbsession |-> pending, response |-> response]

\* The primary key of a new row: one more than the largest in the table.
RECURSIVE MaxOf(_)
MaxOf(S) ==
    IF S = {} THEN 0
    ELSE LET x == CHOOSE y \in S : TRUE
             m == MaxOf(S \ {x})
         IN  IF x > m THEN x ELSE m
next_id(tbl) == MaxOf(DOMAIN tbl) + 1

Without(f, k) == [x \in DOMAIN f \ {k} |-> f[x]]
\* (mutant) a write never replaces what is already there
With_keep(f, k, v) == [x \in DOMAIN f \cup {k} |-> IF x \in DOMAIN f THEN f[x] ELSE v]
With(f, k, v) == [x \in DOMAIN f \cup {k} |-> IF x = k THEN v ELSE f[x]]

ON == <<"o", "n">>

\* The ownership test of delete_file.
\* (mutant) admins may delete any file
delete_denied_admin(file, sess) == file.user_id # sess /\ ~is_admin(sess)
delete_denied(file, sess) == file.user_id # sess

\* The access test of download_file.
\* (mutant) admins may download any file
download_denied_admin(file, sess) ==
    ~file.public /\ file.user_id # sess /\ ~is_admin(sess)
download_denied(file, sess) == ~file.public /\ file.user_id # sess

\* The password test of download_file on a POST.
\* (mutant) any password that is not empty is let through
password_rejected_lax(file, password) ==
    password = None \/ password[1] = ""
password_rejected(file, password) ==
    password = None \/ password[1] = "" \/ ~check_password(file, password[1])

\* upload_file.  file is None or Some of [filename, mimetype, length, data];
\* form holds the optional fields public and password; env says what the
\* salt is and whether file.save and db.session.commit raise.
upload_file(tbl, fs, sess, file, form, env) ==
    IF sess = NoSession THEN
        Outcome(tbl, fs, {}, Response("upload", sess, 0, 401, "json", "Not logged in"))
    ELSE IF sess \notin Users THEN
        Outcome(tbl, fs, {}, Response("upload", sess, 0, 404, "json", "User not found"))
    ELSE IF file = None \/ file[1].filename = <<>> THEN
        Outcome(tbl, fs, {}, Response("upload", sess, 0, 400, "json", "No file part"))
    ELSE IF ~allowed_mimetype(file[1].mimetype) THEN
        Outcome(tbl, fs, {}, Response("upload", sess, 0, 400, "json", "File type not allowed"))
    ELSE IF file[1].length > MAX_FILE_SIZE THEN
        Outcome(tbl, fs, {}, Response("upload", sess, 0, 400, "json", "File size exceeds limit"))
    ELSE
        LET filename  == secure_filename(file[1].filename)
            file_path == path_join(UPLOAD_FOLDER, filename)
            is_public == Lower(IF form.public = None THEN <<"o","f","f">> ELSE form.public[1]) = ON
            password  == IF form.password # None /\ form.password[1] # ""
                         THEN Some(generate_password_hash(form.password[1], env.salt))
                         ELSE None
            new_file  == [filename |-> filename, file_path |-> file_path,
                          user_id |-> sess, public |-> is_public, password |-> password]
            id        == next_id(tbl)
            saved     == With(fs, file_path, file[1].data)
        IN  IF filename = <<>> \/ env.save = "error" THEN
                \* file.save raises: the path is the upload folder itself, or
                \* the write fails
                Outcome(tbl, fs, {}, Response("upload", sess, 0, 500, "json", "save failed"))
            ELSE IF env.commit = "error" THEN
                Outcome(tbl, saved, {[action |-> "insert", table |-> "files", id |-> id]},
                        Response("upload", sess, 0, 500, "json", "commit failed"))
            ELSE
                Outcome(With(tbl, id, new_file), saved, {},
                        Response("upload", sess, id, 200, "json", "File uploaded successfully!"))

\* delete_file.  env says whether db.session.commit and os.remove raise.
delete_file(tbl, fs, sess, file_id, env) ==
    IF sess = NoSession THEN
        Outcome(tbl, fs, {}, Response("delete", sess, file_id, 401, "json", "Not logged in"))
    ELSE IF sess \notin Users THEN
        Outcome(tbl, fs, {}, Response("delete", sess, file_id, 404, "json", "User not found"))
    ELSE IF file_id \notin DOMAIN tbl THEN
        \* get_or_404 aborts with NotFound inside the try block: the handler's
        \* own "except Exception" catches it
        Outcome(tbl, fs, {}, Response("delete", sess, file_id, 500, "json", "404 Not Found"))
    ELSE IF delete_denied(tbl[file_id], sess) THEN
        Outcome(tbl, fs, {}, Response("delete", sess, file_id, 403, "json", "Access denied"))
    ELSE
        LET file_path == tbl[file_id].file_path
        IN  IF env.commit = "error" THEN
                Outcome(tbl, fs, {[action |-> "delete", table |-> "files", id |-> file_id]},
                        Response("delete", sess, file_id, 500, "json", "commit failed"))
            ELSE IF file_path \in DOMAIN fs /\ env.remove = "error" THEN
                Outcome(Without(tbl, file_id), fs, {},
                        Response("delete", sess, file_id, 500, "json", "remove failed"))
            ELSE
                Outcome(Without(tbl, file_id), Without(fs, file_path), {},
                        Response("delete", sess, file_id, 200, "json", "File deleted successfully"))

\* download_file.  method is GET or POST, password the optional form field.
download_file(tbl, fs, sess, file_id, method, password) ==
    IF sess = NoSession THEN
        Response("download", sess, file_id, 401, "json", "Not logged in")
    ELSE IF sess \notin Users THEN
        Response("download", sess, file_id, 404, "json", "User not found")
    ELSE IF file_id \notin DOMAIN tbl THEN
        Response("download", sess, file_id, 500, "json", "404 Not Found")
    ELSE
        LET file == tbl[file_id]
        IN  IF download_denied(file, sess) THEN
                Response("download", sess, file_id, 403, "json", "Access denied")
            ELSE IF file.password # None /\ method = "GET" THEN
                Response("download", sess, file_id, 200, "form", "")
            ELSE IF file.password # None /\ password_rejected(file, password) THEN
                Response("download", sess, file_id, 403, "form", "Incorrect password")
            ELSE IF file.file_path \in DOMAIN fs THEN
                Response("download", sess, file_id, 200, "bytes", fs[file.file_path])
            ELSE
                Response("download", sess, file_id, 404, "json", "File not found on server")

\* ------------------------------------------------------------ note manager
max_title_length == 100
max_content_length == 5000

\* bleach.clean on text that holds no tag: "&", "<" and ">" are escaped.
Escape(c) ==
    CASE c = "&" -> <<"&","a","m","p",";">>
      [] c = "<" -> <<"&","l","t",";">>
      [] c = ">" -> <<"&","g","t",";">>
      [] OTHER   -> <<c>>
RECURSIVE EscapeAll(_)
EscapeAll(s) == IF s = <<>> THEN <<>> ELSE Escape(Head(s)) \o EscapeAll(Tail(s))
clean(s) ==
    IF \A i \in DOMAIN s : s[i] \notin {"&", "<", ">"} THEN s ELSE EscapeAll(s)

\* SQL LIKE as SQLite evaluates it: "%" stands for any run of characters,
\* "_" for any one character, letters match without regard to case.
RECURSIVE Like(_, _)
Like(txt, pattern) ==
    IF pattern = <<>> THEN txt = <<>>
    ELSE IF Head(pattern) = "%" THEN
        \/ Like(txt, Tail(pattern))
        \/ txt # <<>> /\ Like(Tail(txt), pattern)
    ELSE
        /\ txt # <<>>
        /\ \/ Head(pattern) = "_"
           \/ LowerChar(Head(pattern)) = LowerChar(Head(txt))
        /\ Like(Tail(txt), Tail(pattern))

NoteOutcome(tbl, pending, response) ==
    [notes |-> tbl, dbsession |-> pending, response |-> response]

\* create_note.  form holds the optional fields title and content; env says
\* whether db.session.commit raises.
create_note(tbl, sess, form, env) ==
    IF sess = NoSession THEN
        NoteOutcome(tbl, {}, Response("create", sess, 0, 401, "json", "Not logged in"))
    ELSE IF sess \notin Users THEN
        NoteOutcome(tbl, {}, Response("create", sess, 0, 404, "json", "User not found"))
    ELSE
        LET title   == clean(IF form.title = None THEN <<>> ELSE form.title[1])
            content == clean(IF form.content = None THEN <<>> ELSE form.content[1])
            id      == next_id(tbl)
            note    == [title |-> title, content |-> content, user_id |-> sess]
        IN  IF title = <<>> \/ content = <<>> THEN
                NoteOutcome(tbl, {}, Response("create", sess, 0, 400, "json",
                                              "Title and content are required"))
            ELSE IF Len(title) > max_title_length THEN
                NoteOutcome(tbl, {}, Response("create", sess, 0, 400, "json",
                                              "Title exceeds maximum length"))
            ELSE IF Len(content) > max_content_length THEN
                NoteOutcome(tbl, {}, Response("create", sess, 0, 400, "json",
                                              "Content exceeds maximum length"))
            ELSE IF env.commit = "error" THEN
                \* the except block calls db.session.rollback()
                NoteOutcome(tbl, {}, Response("create", sess, 0, 500, "json", "commit failed"))
            ELSE
                NoteOutcome(With(tbl, id, note), {},
                            Response("create", sess, id, 200, "json", "Note created successfully"))

\* The authorization test of delete_note.
\* (mutant) the test is gone
note_delete_denied_never(note, sess) == FALSE
note_delete_denied(note, sess) == note.user_id # sess /\ ~is_admin(sess)

\* The notes a search lists: id, title, content and owner of every row that
\* the SELECT of search_notes returns.
NoteRow(tbl, id) ==
    [id |-> id, title |-> tbl[id].title, content |-> tbl[id].content,
     user_id |-> tbl[id].user_id]
\* (mutant) the SELECT without its user_id condition
select_notes_all(tbl, user_id, query) ==
    LET pattern == <<"%">> \o query \o <<"%">>
    IN  {NoteRow(tbl, id) : id \in
            {i \in DOMAIN tbl :
                Like(tbl[i].title, pattern) \/ Like(tbl[i].content, pattern)}}
select_notes(tbl, user_id, query) ==
    LET pattern == <<"%">> \o query \o <<"%">>
    IN  {NoteRow(tbl, id) : id \in
            {i \in DOMAIN tbl :
                /\ Like(tbl[i].title, pattern) \/ Like(tbl[i].content, pattern)
                /\ tbl[i].user_id = user_id}}

\* search_notes.  q is the optional query-string argument.
search_notes(tbl, sess, q) ==
    IF sess = NoSession THEN
        Response("search", sess, 0, 401, "json", "Not logged in")
    ELSE IF sess \notin Users THEN
        Response("search", sess, 0, 404, "json", "User not found")
    ELSE
        LET query == IF q = None THEN <<>> ELSE q[1]
        IN  [Response("search", sess, 0, 200, "json", query)
                EXCEPT !.notes = select_notes(tbl, sess, query)]

\* delete_note.  env says whether db.session.commit raises.
delete_note(tbl, sess, note_id, env) ==
    IF sess = NoSession THEN
        NoteOutcome(tbl, {}, Response("delete_note", sess, note_id, 401, "json", "Not logged in"))
    ELSE IF sess \notin Users THEN
        NoteOutcome(tbl, {}, Response("delete_note", sess, note_id, 404, "json", "User not found"))
    ELSE IF note_id \notin DOMAIN tbl THEN
        NoteOutcome(tbl, {}, Response("delete_note", sess, note_id, 404, "json", "Note not found"))
    ELSE IF note_delete_denied(tbl[note_id], sess) THEN
        NoteOutcome(tbl, {}, Response("delete_note", sess, note_id, 403, "json", "Unauthorized"))
    ELSE IF env.commit = "error" THEN
        \* the except block calls db.session.rollback()
        NoteOutcome(tbl, {}, Response("delete_note", sess, note_id, 500, "json", "commit failed"))
    ELSE
        NoteOutcome(Without(tbl, note_id), {},
                    Response("delete_note", sess, note_id, 200, "json", "deleted"))

\* ------------------------------------------------------ requests (inputs)
photo_png      == <<"p","h","o","t","o",".","p","n","g">>
up_photo_png   == <<".",".","/">> \o photo_png
my_cv_pdf      == <<"m","y"," ","c","v",".","p","d","f">>
dot_dot        == <<".",".">>

MiB == 1024 * 1024
\* What is uploaded: one content where file names differ, two where every
\* upload lands on the same path.
FileContents == {"bytes-1"}
SharedContents == {"bytes-1", "bytes-2"}
Passwords == {"secret1", "wrong"}
Salts == {"salt-1"}

UploadFile(filename, mimetype, length, data) ==
    [filename |-> filename, mimetype |-> mimetype, length |-> length, data |-> data]

\* File names: two that sanitize to photo.png, one that sanitizes to
\* my_cv.pdf.
SharedNames == {photo_png, up_photo_png}
AllNames == SharedNames \cup {my_cv_pdf}

\* An upload of 2 MiB of image/png.
GoodFile(name, data) == UploadFile(name, "image/png", 2 * MiB, data)

\* Uploads at the edges of validation: the other content types, sizes around
\* the limit, a file part without a name, a name that sanitizes to nothing.
EdgeFiles ==
    {UploadFile(photo_png, "text/html", 2 * MiB, "bytes-1"),
     UploadFile(photo_png, "image/jpeg", MAX_FILE_SIZE + 1, "bytes-1"),
     UploadFile(photo_png, "application/pdf", MAX_FILE_SIZE, "bytes-1"),
     UploadFile(photo_png, "image/gif", 2 * MiB, "bytes-1"),
     UploadFile(<<>>, "image/png", 2 * MiB, "bytes-1"),
     UploadFile(dot_dot, "image/png", 2 * MiB, "bytes-1")}

EmptyForm == [public |-> None, password |-> None]
UploadForms ==
    {[public |-> p, password |-> w] :
        p \in {None, Some(<<"O","n">>)},
        w \in {None, Some(""), Some("secret1")}}
CalmEnv == [salt |-> "salt-1", save |-> "ok", commit |-> "ok"]
FailingEnvs ==
    {[salt |-> s, save |-> o[1], commit |-> o[2]] :
        s \in Salts, o \in {<<"error","ok">>, <<"ok","error">>}}

DeleteEnvs ==
    {[commit |-> o[1], remove |-> o[2]] :
        o \in {<<"ok","ok">>, <<"error","ok">>, <<"ok","error">>}}

Methods == {"GET", "POST"}
FormPasswords == {None, Some("")} \cup {Some(w) : w \in Passwords}
\* The downloads that are sent: a GET without a form and with the right
\* password in one, a POST with each form password.
DownloadRequests ==
    {<<"GET", None>>, <<"GET", Some("secret1")>>}
    \cup {<<"POST", w>> : w \in FormPasswords}

\* ------------------------------------------------------------------ state
Idle == Response("none", NoSession, 0, 0, "none", "")

Init ==
    /\ files = <<>>
    /\ blobs = <<>>
    /\ notes = <<>>
    /\ dbsession = {}
    /\ last = Idle

Apply(out) ==
    /\ files' = out.files
    /\ blobs' = out.blobs
    /\ dbsession' = out.dbsession
    /\ last' = out.response
    /\ UNCHANGED notes

\* The table stays within the primary keys the model hands out.
Within(out, maxId) == DOMAIN out.files \subseteq 1 .. maxId

\* What the requests of a specification are drawn from: the largest primary
\* key, the users who send requests, the file names and the contents they
\* upload.
World(maxId, users, names, contents) ==
    [maxId |-> maxId, users |-> users, names |-> names, contents |-> contents]

\* POST /apps/files/upload: any session without a file part; a user with an
\* edge file; a user with a good file and each form; a user with a good file
\* while file.save or the commit fails.
Upload(w) ==
    \/ \E sess \in Sessions :
          Apply(upload_file(files, blobs, sess, None, EmptyForm, CalmEnv))
    \/ \E sess \in w.users, f \in EdgeFiles :
          LET out == upload_file(files, blobs, sess, Some(f), EmptyForm, CalmEnv)
          IN  Within(out, w.maxId) /\ Apply(out)
    \/ /\ next_id(files) <= w.maxId
       /\ \E sess \in w.users, n \in w.names, d \in w.contents, form \in UploadForms :
             Apply(upload_file(files, blobs, sess, Some(GoodFile(n, d)), form, CalmEnv))
    \/ /\ next_id(files) <= w.maxId
       /\ \E sess \in w.users, n \in w.names, d \in w.contents, env \in FailingEnvs :
             Apply(upload_file(files, blobs, sess, Some(GoodFile(n, d)), EmptyForm, env))

\* DELETE /apps/files/delete/<file_id>
Delete(w) ==
    \/ \E sess \in Sessions \ Users :
          Apply(delete_file(files, blobs, sess, 1, [commit |-> "ok", remove |-> "ok"]))
    \/ \E sess \in w.users, file_id \in 1 .. w.maxId, env \in DeleteEnvs :
          Apply(delete_file(files, blobs, sess, file_id, env))

Respond(response) ==
    /\ last' = response
    /\ dbsession' = {}
    /\ UNCHANGED <<files, blobs, notes>>

\* GET, POST /apps/files/download/<file_id>
Download(w) ==
    \/ \E sess \in Sessions \ Users :
          Respond(download_file(files, blobs, sess, 1, "GET", None))
    \/ \E sess \in w.users, file_id \in 1 .. w.maxId, r \in DownloadRequests :
          Respond(download_file(files, blobs, sess, file_id, r[1], r[2]))

\* The server dies inside upload_file between file.save and the commit: the
\* blob is on disk, the row is not, nobody gets a response.
UploadCrash(w) ==
    \E sess \in w.users, n \in w.names, d \in w.contents :
        LET out == upload_file(files, blobs, sess, Some(GoodFile(n, d)), EmptyForm, CalmEnv)
        IN  /\ next_id(files) <= w.maxId
            /\ out.response.status = 200
            /\ blobs' = out.blobs
            /\ dbsession' = {}
            /\ last' = Response("upload", sess, 0, 0, "crash", "")
            /\ UNCHANGED <<files, notes>>

\* The server dies inside delete_file between the commit and os.remove: the
\* row is gone, the blob is still on disk.
DeleteCrash(w) ==
    \E sess \in w.users, file_id \in 1 .. w.maxId :
        LET out == delete_file(files, blobs, sess, file_id, [commit |-> "ok", remove |-> "ok"])
        IN  /\ out.response.status = 200
            /\ files' = out.files
            /\ dbsession' = {}
            /\ last' = Response("delete", sess, file_id, 0, "crash", "")
            /\ UNCHANGED <<blobs, notes>>

\* ------------------------------------------------------- note requests
Repeat(c, n) == [i \in 1 .. n |-> c]
groceries == <<"G","r","o","c","e","r","i","e","s">>
milk_eggs == <<"m","i","l","k",","," ","e","g","g","s">>
one_lt_two == <<"1","<","2">>

NoteForm(title, content) == [title |-> title, content |-> content]
GoodTitles == {groceries, one_lt_two}
GoodContents == {milk_eggs}
\* Forms that validation must refuse: a field missing, a field empty, a title
\* of 101 characters.  (No request of the sample carries a content of more
\* than 5000 characters.)
LongTitle == Repeat("a", max_title_length + 1)
BadNoteForms ==
    {NoteForm(None, Some(milk_eggs)), NoteForm(Some(groceries), None),
     NoteForm(Some(<<>>), Some(milk_eggs)),
     NoteForm(Some(LongTitle), Some(milk_eggs))}
NoteEnvs == {[commit |-> "ok"], [commit |-> "error"]}
Queries ==
    {None, Some(<<"m","i","l","k">>), Some(<<"M","I","L","K">>), Some(<<"%">>),
     Some(<<"g","_","o">>), Some(<<"&","l","t",";">>), Some(<<"z">>)}

ApplyNote(out) ==
    /\ notes' = out.notes
    /\ dbsession' = out.dbsession
    /\ last' = out.response
    /\ UNCHANGED <<files, blobs>>

\* POST /apps/notes/create: a session without a user; a user with a form
\* that validation refuses; a user with a good form.
Create ==
    \/ \E sess \in Sessions \ Users :
          ApplyNote(create_note(notes, sess, NoteForm(None, None), [commit |-> "ok"]))
    \/ \E sess \in Users, form \in BadNoteForms :
          ApplyNote(create_note(notes, sess, form, [commit |-> "ok"]))
    \/ /\ next_id(notes) <= MaxNoteId
       /\ \E sess \in Users, title \in GoodTitles, content \in GoodContents, env \in NoteEnvs :
             ApplyNote(create_note(notes, sess, NoteForm(Some(title), Some(content)), env))

\* GET /apps/notes/search
Search ==
    \E sess \in Sessions, q \in Queries :
        /\ last' = search_notes(notes, sess, q)
        /\ dbsession' = {}
        /\ UNCHANGED <<files, blobs, notes>>

\* DELETE /apps/notes/delete/<note_id>
DeleteNote ==
    \E sess \in Sessions, note_id \in 1 .. MaxNoteId, env \in NoteEnvs :
        ApplyNote(delete_note(notes, sess, note_id, env))

NextNotes == Create \/ Search \/ DeleteNote

SpecNotes == Init /\ [][NextNotes]_vars

\* The file manager with every user, file names that differ and file names
\* that collide.
FilesWorld == World(MaxFileId, Users, AllNames, FileContents)
NextFiles ==
    \/ Upload(FilesWorld)
    \/ Delete(FilesWorld)
    \/ Download(FilesWorld)
    \/ UploadCrash(FilesWorld)
    \/ DeleteCrash(FilesWorld)

SpecFiles == Init /\ [][NextFiles]_vars

\* The file manager when two users upload under names that all sanitize to
\* photo.png.
SharedWorld == World(MaxSharedId, {1, 2}, SharedNames, SharedContents)
NextShared ==
    \/ Upload(SharedWorld)
    \/ Delete(SharedWorld)
    \/ Download(SharedWorld)
    \/ UploadCrash(SharedWorld)
    \/ DeleteCrash(SharedWorld)

SpecShared == Init /\ [][NextShared]_vars

\* ============================================================ properties
\* The row a response is about, when it is still in the table.
LastFile == files[last.id]
LastIsAbout(op) == last.op = op /\ last.user \in Users /\ last.id \in DOMAIN files

\* C1: a download of a private file by any user other than its owner, admin
\* or not, by GET or POST and with any password, is answered 403 and never
\* with the blob bytes.
C1_PrivateDownloadForbidden ==
    /\ \A u \in Users, id \in DOMAIN files, m \in Methods, w \in FormPasswords :
          (~files[id].public /\ files[id].user_id # u) =>
              LET r == download_file(files, blobs, u, id, m, w)
              IN  r.status = 403 /\ r.kind # "bytes"
    /\ (LastIsAbout("download") /\ ~LastFile.public /\ LastFile.user_id # last.user) =>
          (last.status = 403 /\ last.kind # "bytes")

\* An admin has just been refused a private file of another user, whose blob
\* is in the upload folder.
C1_Witness ==
    /\ LastIsAbout("download")
    /\ last.user \in Admins
    /\ ~LastFile.public
    /\ LastFile.user_id # last.user
    /\ LastFile.file_path \in DOMAIN blobs
    /\ last.status = 403

\* C2: for a file with a password, a download returns the blob bytes only
\* when the password it supplies verifies against the stored hash; no
\* session, method or other password gets the bytes.
Verifies(pwhash, w) == w # None /\ pwhash.digest = Digest(pwhash.salt, w[1])
C2_PasswordGatesBytes ==
    \A u \in Sessions, id \in DOMAIN files, m \in Methods, w \in FormPasswords :
        files[id].password # None =>
            LET r == download_file(files, blobs, u, id, m, w)
            IN  r.kind = "bytes" => Verifies(files[id].password[1], w)

\* The owner of a password-protected file has just been refused its bytes
\* for want of the right password.
C2_Witness ==
    /\ LastIsAbout("download")
    /\ LastFile.password # None
    /\ LastFile.user_id = last.user
    /\ LastFile.file_path \in DOMAIN blobs
    /\ last.status = 403
    /\ last.kind = "form"

\* C3: a delete or a download of a file id that has no row is answered 404
\* and changes neither the files table nor the upload folder.
C3_MissingFileNotFound ==
    [][(/\ last'.op \in {"delete", "download"}
        /\ last'.kind # "crash"
        /\ last'.user \in Users
        /\ last'.id \notin DOMAIN files)
       => (last'.status = 404 /\ files' = files /\ blobs' = blobs)]_vars

\* C5: every row of the files table has its blob in the upload folder.
C5_NoDanglingRow ==
    \A id \in DOMAIN files : files[id].file_path \in DOMAIN blobs

\* The scenario of C6: user a has just uploaded photo.png with the password
\* "secret1"; the response names the new row.
JustUploadedPhoto(a) ==
    /\ LastIsAbout("upload")
    /\ last.status = 200
    /\ last.user = a
    /\ LastFile.filename = photo_png
    /\ LastFile.user_id = a
    /\ LastFile.password # None
    /\ Verifies(LastFile.password[1], Some("secret1"))
ChallengeWrongBytes(b) ==
    /\ download_file(files, blobs, b, last.id, "GET", None).kind = "form"
    /\ download_file(files, blobs, b, last.id, "POST", Some("wrong")).status = 403
    /\ LET r == download_file(files, blobs, b, last.id, "POST", Some("secret1"))
       IN  r.kind = "bytes" /\ r.data = blobs[LastFile.file_path]

\* C6 as stated: after user A uploads photo.png with the password "secret1",
\* user B's download gets the password form without a password, 403 with
\* "wrong" and the bytes with "secret1".
C6_ScenarioAsStated ==
    \A a \in Users : \A b \in Users \ {a} :
        JustUploadedPhoto(a) => ChallengeWrongBytes(b)

\* C6 amended: the same, for an upload that is marked public.
C6_ScenarioPublic ==
    \A a \in Users : \A b \in Users \ {a} :
        (JustUploadedPhoto(a) /\ LastFile.public) => ChallengeWrongBytes(b)

\* User 1 has just uploaded photo.png, public and with the password.
C6_Witness == JustUploadedPhoto(1) /\ LastFile.public

\* C7: when the commit of a mutating handler fails, nothing is left pending
\* in db.session when the handler responds.
C7_RolledBackOnFailure ==
    (last.op \in {"upload", "delete", "create", "delete_note"}
        /\ last.data = "commit failed") => dbsession = {}

\* The uploads C8 is about: each content type with each size around the
\* limit, under either form, with bytes that no stored blob has.
C8_Types == {"application/pdf", "image/png", "image/jpeg", "image/gif"}
C8_Limit == 5 * 1024 * 1024
C8_Uploads ==
    {[file |-> UploadFile(photo_png, m, l, "bytes-0"), form |-> f] :
        m \in C8_Types \cup {"text/html"},
        l \in {2 * MiB, C8_Limit, C8_Limit + 1},
        f \in {EmptyForm, [public |-> Some(ON), password |-> Some("secret1")]}}

\* C8: an upload whose content type is outside the four allowed ones, or
\* whose size exceeds 5 MiB, is refused and leaves the files table and the
\* upload folder as they were; an upload of exactly 5 MiB of an allowed type
\* is accepted.
C8_RejectedUploadChangesNothing ==
    \A u \in Users, r \in C8_Uploads :
        LET out == upload_file(files, blobs, u, Some(r.file), r.form, CalmEnv)
        IN  /\ (r.file.mimetype \notin C8_Types \/ r.file.length > C8_Limit) =>
                  /\ out.response.status = 400
                  /\ out.files = files
                  /\ out.blobs = blobs
            /\ (r.file.mimetype \in C8_Types /\ r.file.length = C8_Limit) =>
                  /\ out.response.status = 200
                  /\ out.blobs[path_join(UPLOAD_FOLDER, photo_png)] = "bytes-0"

\* An upload has just been refused for its size while a row was in the table.
C8_Witness ==
    /\ last.op = "upload"
    /\ last.status = 400
    /\ last.data = "File size exceeds limit"
    /\ files # <<>>

\* C9: a delete of a file by any user other than its owner, admin or not,
\* public file or not, is answered 403 and leaves row and blob in place; a
\* row leaves the table only in a delete issued by its owner.
C9_Refused ==
    \A u \in Users, id \in DOMAIN files, env \in DeleteEnvs :
        files[id].user_id # u =>
            LET out == delete_file(files, blobs, u, id, env)
            IN  /\ out.response.status = 403
                /\ out.files = files
                /\ out.blobs = blobs
C9_OnlyOwnerDeletes ==
    /\ []C9_Refused
    /\ [][\A id \in DOMAIN files :
            (id \notin DOMAIN files' \/ files'[id] # files[id]) =>
                (last'.op = "delete" /\ last'.id = id
                    /\ last'.user = files[id].user_id)]_vars

\* An admin has just been refused the delete of a public file of another
\* user.
C9_Witness ==
    /\ LastIsAbout("delete")
    /\ last.user \in Admins
    /\ LastFile.public
    /\ LastFile.user_id # last.user
    /\ LastFile.file_path \in DOMAIN blobs
    /\ last.status = 403

\* C4: every note a search lists belongs to the user who searches, admin or
\* not and whatever the query; a note of another user is never listed.
C4_SearchOwnNotesOnly ==
    /\ \A u \in Users, q \in Queries :
          \A n \in search_notes(notes, u, q).notes :
              /\ n.user_id = u
              /\ n.id \in DOMAIN notes
              /\ notes[n.id].user_id = u
    /\ last.op = "search" =>
          \A n \in last.notes : n.user_id = last.user /\ notes[n.id].user_id = last.user

\* An admin has just searched and got a note of their own, while a note of
\* another user matches the same query.
C4_Witness ==
    /\ last.op = "search"
    /\ last.user \in Admins
    /\ last.notes # {}
    /\ \E id \in DOMAIN notes :
          /\ notes[id].user_id # last.user
          /\ Like(notes[id].content, <<"%">> \o last.data \o <<"%">>)

\* C10: a delete of a missing note is answered 404; a delete by a user who
\* neither owns the note nor is an admin is answered 403 and changes nothing;
\* a delete by the owner or by an admin, when the commit succeeds, removes
\* that note and no other; a note leaves the table only in a delete issued by
\* its owner or by an admin.
C10_Answers ==
    \A u \in Users, id \in 1 .. MaxNoteId, env \in NoteEnvs :
        LET out == delete_note(notes, u, id, env)
        IN  /\ id \notin DOMAIN notes =>
                  out.response.status = 404 /\ out.notes = notes
            /\ (id \in DOMAIN notes /\ notes[id].user_id # u /\ u \notin Admins) =>
                  out.response.status = 403 /\ out.notes = notes
            /\ (id \in DOMAIN notes /\ (notes[id].user_id = u \/ u \in Admins)
                    /\ env.commit = "ok") =>
                  /\ out.response.status = 200
                  /\ DOMAIN out.notes = DOMAIN notes \ {id}
                  /\ \A k \in DOMAIN out.notes : out.notes[k] = notes[k]
C10_OnlyOwnerOrAdminDeletes ==
    /\ []C10_Answers
    /\ [][\A id \in DOMAIN notes :
            (id \notin DOMAIN notes' \/ notes'[id] # notes[id]) =>
                (/\ last'.op = "delete_note"
                 /\ last'.id = id
                 /\ last'.status = 200
                 /\ last'.user = notes[id].user_id \/ last'.user \in Admins)]_vars

\* An admin has just deleted a note while a note of an ordinary user is
\* still in the table.
C10_Witness ==
    /\ last.op = "delete_note"
    /\ last.status = 200
    /\ last.user \in Admins
    /\ last.id \notin DOMAIN notes
    /\ \E k \in DOMAIN notes : notes[k].user_id \notin Admins

\* The uploads of C11: a file whose name sanitizes to photo.png, with bytes
\* no earlier upload carried, sent with or without the public flag and a
\* password.
C11_Bytes == "bytes-later"
C11_Forms == {EmptyForm, [public |-> Some(ON), password |-> Some("secret1")]}
C11_Path == path_join(UPLOAD_FOLDER, photo_png)

\* A download that is permitted: the caller owns the file or the file is
\* public, and the password, if the file has one, is posted.
C11_Permitted(file, v, m, w) ==
    /\ file.public \/ file.user_id = v
    /\ file.password # None => (m = "POST" /\ w # None /\ check_password(file, w[1]))
C11_Downloads ==
    {<<"GET", None>>, <<"POST", None>>, <<"POST", Some("secret1")>>, <<"POST", Some("wrong")>>}

\* Every download of row k that returns bytes returns the later upload's,
\* and every permitted download returns bytes.
C11_Returns(tbl, fs, k) ==
    \A v \in Users, d \in C11_Downloads :
        \A r \in {download_file(tbl, fs, v, k, d[1], d[2])} :
            /\ r.kind = "bytes" => r.data = C11_Bytes
            /\ C11_Permitted(tbl[k], v, d[1], d[2]) => (r.status = 200 /\ r.kind = "bytes")

\* C11: a successful upload under a sanitized name that a row of the table
\* already has leaves that row as it was (owner, public flag, password),
\* adds a row with the same file_path, leaves at that path the bytes of the
\* later upload only, and every permitted download through either id returns
\* the later upload's bytes.  The outcome depends on files and blobs only,
\* and the two change only in an upload or a delete answered 200 or 500 or
\* cut short by a crash, so the upload is tried in the states such a step
\* leaves.
C11_CollisionOverwrites ==
    (/\ last.op # "download"
     /\ last.status \in {0, 200, 500}
     /\ \E id \in DOMAIN files : files[id].file_path = C11_Path) =>
        \A u \in SharedWorld.users, n \in SharedNames, form \in C11_Forms :
            \A out \in {upload_file(files, blobs, u, Some(GoodFile(n, C11_Bytes)), form, CalmEnv)} :
                LET new == out.response.id
                IN  /\ out.response.status = 200
                    /\ new \notin DOMAIN files
                    /\ DOMAIN out.files = DOMAIN files \cup {new}
                    /\ out.files[new].file_path = C11_Path
                    /\ out.files[new].user_id = u
                    /\ out.blobs[C11_Path] = C11_Bytes
                    /\ C11_Returns(out.files, out.blobs, new)
                    /\ \A id \in DOMAIN files :
                          files[id].file_path = C11_Path =>
                              /\ out.files[id] = files[id]
                              /\ C11_Returns(out.files, out.blobs, id)

\* A second upload has just succeeded under the path of a row of another
\* user, which has a password; the path holds the bytes of one upload.
C11_Witness ==
    /\ last.op = "upload"
    /\ last.status = 200
    /\ last.id = 2
    /\ 1 \in DOMAIN files
    /\ files[1].file_path = files[2].file_path
    /\ files[1].user_id # files[2].user_id
    /\ files[1].password # None
    /\ files[1].file_path \in DOMAIN blobs

====
